---- MODULE Spec2Model ----
(***************************************************************************)
(* Model of crates/kubelet/src/fs_watch/mod.rs: the FileSystemWatcher      *)
(* stream, its native (notify) constructor and the macOS polling task      *)
(* mac::dir_watcher with handle_creates / handle_deletes.                  *)
(***************************************************************************)
EXTENDS Integers, Sequences, FiniteSets, TLC

\* ---------------------------------------------------------------- bounds
MaxCycles == 2      \* iterations of the polling loop that are explored
MaxNative == 2      \* native callback invocations that are explored

\* ------------------------------------------------------------- constants
WAIT_TIME == 2      \* mod.rs:64

\* the entries that may exist in the watched directory
Paths == {"old_foo.txt", "new_foo.txt"}

VARIABLES
    target_os,      \* cfg(target_os): "macos" or "other"
    dir,            \* entries currently in the watched directory
    dir_ok,         \* the path exists and is a readable directory
    result,         \* what new() returned: "none" (not called), "pending", "Ok", "Err"
    watcher,        \* the notify watcher local of the native new(): "none", "registered", "dropped"
    tx_alive,       \* some sending half of the channel exists
    rx_alive,       \* the receiving half (the FileSystemWatcher) exists
    chan,           \* items queued in the unbounded channel
    pc,             \* position of the spawned polling task
    path_cache,     \* the task's path_cache
    current_paths,  \* the task's current_paths
    timer,          \* seconds left of the delay_for
    sends,          \* history: every tx.send call, with its outcome
    received,       \* history: every item the stream yielded
    cycles,         \* history: per loop iteration, the cache it started with and its listing
    init_listed,    \* history: the initial listing (<<>> until it succeeded)
    changed,        \* history: the directory changed since the last successful listing
    tracking,       \* history: whether touched is being recorded
    touched,        \* history: the entries created, removed or rewritten since then
    slept,          \* history: a delay_for completed since the last listing of the loop
    callbacks,      \* history: the results the native facility passed to the closure
    eos,            \* the stream has yielded None
    other           \* a second dir_watcher task whose listing in the loop never returns

vars == <<target_os, dir, dir_ok, result, watcher, tx_alive, rx_alive, chan, pc,
          path_cache, current_paths, timer, sends, received, cycles,
          init_listed, changed, tracking, touched, slept,
          callbacks, eos, other>>

cfgVars  == <<target_os, tracking>>
envVars  == <<dir, dir_ok>>
taskVars == <<pc, path_cache, current_paths, timer>>
chanVars == <<tx_alive, rx_alive, chan>>

Range(s) == {s[i] : i \in DOMAIN s}

\* Vec<PathBuf> collected from a HashSet iterator: every element once, in
\* the set's (unspecified) iteration order.
CollectVec(S) ==
    {s \in [1..Cardinality(S) -> S] : \A i, j \in 1..Cardinality(S) : s[i] = s[j] => i = j}

\* get_dir_list: the set of entries, or an io::Error (<<>>)
get_dir_list == IF dir_ok THEN <<dir>> ELSE <<>>

\* the difference dropped: every listed path counts as created
CreatedSetNoDiff(cache, current) == current

\* current_paths.difference(&path_cache)
CreatedSet(cache, current) == current \ cache

\* the difference dropped: every cached path counts as removed
RemovedSetNoDiff(cache, current) == cache

\* a symmetric difference in place of the one-sided one
RemovedSetSymmetric(cache, current) == (cache \ current) \cup (current \ cache)

\* path_cache.difference(&current_paths)
RemovedSet(cache, current) == cache \ current

Event(kind, paths) == [kind |-> kind, paths |-> paths, cyc |-> Len(cycles)]

\* UnboundedSender::send: fails iff the receiver is gone
Send(item) ==
    /\ sends' = Append(sends, [item |-> item, ok |-> rx_alive])
    /\ chan' = IF rx_alive THEN Append(chan, item) ELSE chan

NoSend == UNCHANGED <<sends, chan>>

\* handle_deletes called ahead of handle_creates
DiffStepsDeletesFirst == <<"deletes", "creates", "assign">>

\* order of the statements of the loop body after a successful listing
DiffSteps == <<"creates", "deletes", "assign">>

StepAfter(p) ==
    LET i == CHOOSE k \in DOMAIN DiffSteps : DiffSteps[k] = p
    IN IF i < Len(DiffSteps) THEN DiffSteps[i + 1] ELSE "sleep"

\* the state before new() is called, whatever the platform
Start ==
    /\ dir \in SUBSET Paths
    /\ dir_ok \in BOOLEAN
    /\ result = "none"
    /\ watcher = "none"
    /\ tx_alive = FALSE
    /\ rx_alive = FALSE
    /\ chan = <<>>
    /\ pc = "none"
    /\ path_cache = {}
    /\ current_paths = {}
    /\ timer = 0
    /\ sends = <<>>
    /\ received = <<>>
    /\ cycles = <<>>
    /\ init_listed = <<>>
    /\ changed = FALSE
    /\ touched = {}
    /\ slept = FALSE
    /\ callbacks = <<>>
    /\ eos = FALSE
    /\ other = [pc |-> "none", path_cache |-> {}]

Init ==
    /\ target_os \in {"macos", "other"}
    /\ tracking = FALSE
    /\ Start

\* ------------------------------------------------------------ environment
CreateFile(p) ==
    /\ dir_ok
    /\ p \notin dir
    /\ dir' = dir \cup {p}
    /\ changed' = TRUE
    /\ touched' = IF tracking THEN touched \cup {p} ELSE touched
    /\ UNCHANGED <<cfgVars, other, callbacks, eos, dir_ok, result, watcher, chanVars, taskVars,
                   sends, received, cycles, init_listed, slept>>

RemoveFile(p) ==
    /\ dir_ok
    /\ p \in dir
    /\ dir' = dir \ {p}
    /\ changed' = TRUE
    /\ touched' = IF tracking THEN touched \cup {p} ELSE touched
    /\ UNCHANGED <<cfgVars, other, callbacks, eos, dir_ok, result, watcher, chanVars, taskVars,
                   sends, received, cycles, init_listed, slept>>

\* the content of an entry is rewritten in place
ModifyFile(p) ==
    /\ dir_ok
    /\ p \in dir
    /\ changed' = TRUE
    /\ touched' = IF tracking THEN touched \cup {p} ELSE touched
    /\ UNCHANGED <<cfgVars, other, callbacks, eos, envVars, result, watcher, chanVars, taskVars,
                   sends, received, cycles, init_listed, slept>>

\* the directory is removed / made unreadable, or restored
SetDirOk(b) ==
    /\ dir_ok # b
    /\ dir_ok' = b
    /\ changed' = TRUE
    /\ UNCHANGED <<cfgVars, other, callbacks, eos, dir, touched, result, watcher, chanVars,
                   taskVars, sends, received, cycles, init_listed, slept>>

\* ------------------------------------------------------------ constructor
\* FileSystemWatcher::new on macOS: Ok(FileSystemWatcher(mac::dir_watcher(path)))
NewPolling ==
    /\ target_os = "macos"
    /\ result = "none"
    /\ result' = "Ok"
    /\ tx_alive' = TRUE
    /\ rx_alive' = TRUE
    /\ pc' = "init"
    /\ UNCHANGED <<cfgVars, other, callbacks, eos, envVars, watcher, chan, path_cache,
                   current_paths, timer, sends, received, cycles, init_listed, changed,
                   touched, slept>>

\* the result of watcher.watch(..) ignored instead of propagated with `?`
NativeWatchUnchecked ==
    /\ target_os = "other"
    /\ result = "none"
    /\ result' = "pending"
    /\ watcher' = "registered"
    /\ tx_alive' = TRUE
    /\ rx_alive' = TRUE
    /\ UNCHANGED <<cfgVars, other, callbacks, eos, envVars, chan, taskVars, sends, received,
                   cycles, init_listed, changed, touched, slept>>

\* FileSystemWatcher::new elsewhere, up to watcher.watch(path, ..)?
NativeWatch ==
    /\ target_os = "other"
    /\ result = "none"
    /\ \E backend_ok \in BOOLEAN :
         IF backend_ok /\ dir_ok
         THEN /\ result' = "pending"
              /\ watcher' = "registered"
              /\ tx_alive' = TRUE
              /\ rx_alive' = TRUE
         ELSE /\ result' = "Err"
              /\ UNCHANGED <<watcher, tx_alive, rx_alive>>
    /\ UNCHANGED <<cfgVars, other, callbacks, eos, envVars, chan, taskVars, sends, received,
                   cycles, init_listed, changed, touched, slept>>

\* ... and its return: Ok(FileSystemWatcher(stream_rx)); the local `watcher`
\* goes out of scope and its Drop asks the notify event loop to shut down
NativeReturn ==
    /\ result = "pending"
    /\ result' = "Ok"
    /\ watcher' = "dropped"
    /\ UNCHANGED <<cfgVars, other, callbacks, eos, envVars, tx_alive, rx_alive, chan, taskVars,
                   sends, received, cycles, init_listed, changed, touched, slept>>

\* the notify event loop ends: the closure, and stream_tx inside it, is freed
NativeShutdown ==
    /\ watcher = "dropped"
    /\ watcher' = "gone"
    /\ tx_alive' = FALSE
    /\ UNCHANGED <<cfgVars, other, callbacks, eos, envVars, result, rx_alive, chan, taskVars,
                   sends, received, cycles, init_listed, changed, touched, slept>>

NativeKinds == {"Create", "Remove", "Other", "Err"}

\* the argument of the closure: Ok(Event { kind, paths, .. }) or Err(_)
NativeResult(kind, p) == [kind |-> kind, paths |-> IF kind = "Err" THEN <<>> ELSE <<p>>]

\* stream_tx.send(res): the channel item made of the closure's argument
NativeItem(res) == [kind |-> res.kind, paths |-> res.paths, cyc |-> 0]

\* a closure that forwards events only and swallows the errors
NativeCallbackDropsErrors(kind, p) ==
    /\ watcher \in {"registered", "dropped"}
    /\ Len(callbacks) < MaxNative
    /\ callbacks' = Append(callbacks, NativeResult(kind, p))
    /\ IF kind = "Err" THEN NoSend ELSE Send(NativeItem(NativeResult(kind, p)))
    /\ UNCHANGED <<cfgVars, other, eos, envVars, result, watcher, tx_alive, rx_alive, taskVars,
                   received, cycles, init_listed, changed, touched, slept>>

\* the closure passed to Watcher::new_immediate, run by the notify event loop
NativeCallback(kind, p) ==
    /\ watcher \in {"registered", "dropped"}
    /\ Len(callbacks) < MaxNative
    /\ callbacks' = Append(callbacks, NativeResult(kind, p))
    /\ Send(NativeItem(NativeResult(kind, p)))
    /\ UNCHANGED <<cfgVars, other, eos, envVars, result, watcher, tx_alive, rx_alive, taskVars,
                   received, cycles, init_listed, changed, touched, slept>>

\* --------------------------------------------------------------- consumer
\* Stream::poll_next returning Ready(Some(item))
Recv ==
    /\ result = "Ok"
    /\ rx_alive
    /\ chan # <<>>
    /\ received' = Append(received, Head(chan))
    /\ chan' = Tail(chan)
    /\ UNCHANGED <<cfgVars, other, callbacks, eos, envVars, result, watcher, tx_alive, rx_alive,
                   taskVars, sends, cycles, init_listed, changed, touched, slept>>

\* Stream::poll_next returning Ready(None): nothing queued and no sender left
RecvNone ==
    /\ result = "Ok"
    /\ rx_alive
    /\ chan = <<>>
    /\ ~tx_alive
    /\ ~eos
    /\ eos' = TRUE
    /\ UNCHANGED <<cfgVars, other, callbacks, envVars, result, watcher, tx_alive, rx_alive, chan,
                   taskVars, sends, received, cycles, init_listed, changed, touched, slept>>

\* the consumer drops the FileSystemWatcher
DropRx ==
    /\ result = "Ok"
    /\ rx_alive
    /\ rx_alive' = FALSE
    /\ chan' = <<>>
    /\ UNCHANGED <<cfgVars, other, callbacks, eos, envVars, result, watcher, tx_alive, taskVars,
                   sends, received, cycles, init_listed, changed, touched, slept>>

\* ----------------------------------------------------------- polling task
\* the failed initial listing reported into the channel like a later one
InitListSendsErr ==
    /\ pc = "init"
    /\ pc' = "list"
    /\ IF get_dir_list # <<>>
       THEN /\ path_cache' = get_dir_list[1]
            /\ init_listed' = get_dir_list
            /\ changed' = FALSE
            /\ touched' = {}
            /\ NoSend
       ELSE /\ path_cache' = {}
            /\ Send([kind |-> "Err", paths |-> <<>>, cyc |-> 0])
            /\ UNCHANGED <<init_listed, changed, touched>>
    /\ UNCHANGED <<cfgVars, other, callbacks, eos, envVars, result, watcher, tx_alive, rx_alive,
                   current_paths, timer, received, cycles, slept>>

\* let mut path_cache = match get_dir_list(&path).await { Ok(set) => set, Err => HashSet::new() }
InitList ==
    /\ pc = "init"
    /\ pc' = "list"
    /\ IF get_dir_list # <<>>
       THEN /\ path_cache' = get_dir_list[1]
            /\ init_listed' = get_dir_list
            /\ changed' = FALSE
            /\ touched' = {}
       ELSE /\ path_cache' = {}
            /\ UNCHANGED <<init_listed, changed, touched>>
    /\ UNCHANGED <<cfgVars, other, callbacks, eos, envVars, result, watcher, chanVars,
                   current_paths, timer, sends, received, cycles, slept>>

\* listings taken one at a time: none starts while another task is inside one
ListOkOneAtATime ==
    /\ other.pc # "list"
    /\ pc = "list"
    /\ Len(cycles) < MaxCycles
    /\ get_dir_list # <<>>
    /\ current_paths' = get_dir_list[1]
    /\ pc' = DiffSteps[1]
    /\ cycles' = Append(cycles, [cache |-> path_cache, listed |-> get_dir_list,
                                 stable |-> ~changed,
                                 touched |-> touched, slept |-> slept])
    /\ changed' = FALSE
    /\ touched' = {}
    /\ slept' = FALSE
    /\ UNCHANGED <<cfgVars, other, callbacks, eos, envVars, result, watcher, chanVars,
                   path_cache, timer, sends, received, init_listed>>

\* let current_paths = match get_dir_list(&path).await { Ok(set) => set, ..
ListOk ==
    /\ pc = "list"
    /\ Len(cycles) < MaxCycles
    /\ get_dir_list # <<>>
    /\ current_paths' = get_dir_list[1]
    /\ pc' = DiffSteps[1]
    /\ cycles' = Append(cycles, [cache |-> path_cache, listed |-> get_dir_list,
                                 stable |-> ~changed,
                                 touched |-> touched, slept |-> slept])
    /\ changed' = FALSE
    /\ touched' = {}
    /\ slept' = FALSE
    /\ UNCHANGED <<cfgVars, other, callbacks, eos, envVars, result, watcher, chanVars, path_cache,
                   timer, sends, received, init_listed>>

\* a failed listing ending the task (`break` in place of `continue`)
ListFailExits ==
    /\ pc = "list"
    /\ Len(cycles) < MaxCycles
    /\ get_dir_list = <<>>
    /\ cycles' = Append(cycles, [cache |-> path_cache, listed |-> <<>>, stable |-> ~changed,
                                 touched |-> touched, slept |-> slept])
    /\ Send([kind |-> "Err", paths |-> <<>>, cyc |-> Len(cycles) + 1])
    /\ pc' = "exited"
    /\ tx_alive' = FALSE
    /\ slept' = FALSE
    /\ UNCHANGED <<cfgVars, other, callbacks, eos, envVars, result, watcher, rx_alive, path_cache,
                   current_paths, timer, received, init_listed, changed, touched>>

\* a failed listing treated like the failed initial one: the cache is reset
ListFailResetsCache ==
    /\ pc = "list"
    /\ Len(cycles) < MaxCycles
    /\ get_dir_list = <<>>
    /\ cycles' = Append(cycles, [cache |-> path_cache, listed |-> <<>>, stable |-> ~changed,
                                 touched |-> touched, slept |-> slept])
    /\ Send([kind |-> "Err", paths |-> <<>>, cyc |-> Len(cycles) + 1])
    /\ pc' = "list"
    /\ path_cache' = {}
    /\ slept' = FALSE
    /\ UNCHANGED <<cfgVars, other, callbacks, eos, envVars, result, watcher, tx_alive, rx_alive,
                   current_paths, timer, received, init_listed, changed, touched>>

\* .. Err(e) => { error!(..); tx.send(Err(NotifyError::io(e))); continue; }
ListFail ==
    /\ pc = "list"
    /\ Len(cycles) < MaxCycles
    /\ get_dir_list = <<>>
    /\ cycles' = Append(cycles, [cache |-> path_cache, listed |-> <<>>, stable |-> ~changed,
                                 touched |-> touched, slept |-> slept])
    /\ Send([kind |-> "Err", paths |-> <<>>, cyc |-> Len(cycles) + 1])
    /\ pc' = "list"
    /\ slept' = FALSE
    /\ UNCHANGED <<cfgVars, other, callbacks, eos, envVars, result, watcher, tx_alive, rx_alive,
                   path_cache, current_paths, timer, received, init_listed, changed,
                   touched>>

\* handle_creates without its paths.is_empty() early return
HandleCreatesNoEmptyCheck ==
    /\ pc = "creates"
    /\ pc' = StepAfter("creates")
    /\ \E paths \in CollectVec(CreatedSet(path_cache, current_paths)) :
           Send(Event("Create", paths))
    /\ UNCHANGED <<cfgVars, other, callbacks, eos, envVars, result, watcher, tx_alive, rx_alive,
                   path_cache, current_paths, timer, received, cycles, init_listed, changed,
                   touched, slept>>

\* handle_creates(tx.clone(), current_paths.difference(&path_cache).cloned())
HandleCreates ==
    /\ pc = "creates"
    /\ pc' = StepAfter("creates")
    /\ IF CreatedSet(path_cache, current_paths) = {}
       THEN NoSend
       ELSE \E paths \in CollectVec(CreatedSet(path_cache, current_paths)) :
                Send(Event("Create", paths))
    /\ UNCHANGED <<cfgVars, other, callbacks, eos, envVars, result, watcher, tx_alive, rx_alive,
                   path_cache, current_paths, timer, received, cycles, init_listed, changed,
                   touched, slept>>

\* handle_deletes returning before it sends anything
HandleDeletesSilent ==
    /\ pc = "deletes"
    /\ pc' = StepAfter("deletes")
    /\ NoSend
    /\ UNCHANGED <<cfgVars, other, callbacks, eos, envVars, result, watcher, tx_alive, rx_alive,
                   path_cache, current_paths, timer, received, cycles, init_listed,
                   changed, touched, slept>>

\* handle_deletes ending the task when its send fails
HandleDeletesStopsOnSendError ==
    /\ pc = "deletes"
    /\ pc' = IF RemovedSet(path_cache, current_paths) # {} /\ ~rx_alive
             THEN "exited" ELSE StepAfter("deletes")
    /\ IF RemovedSet(path_cache, current_paths) = {}
       THEN NoSend
       ELSE \E paths \in CollectVec(RemovedSet(path_cache, current_paths)) :
                Send(Event("Remove", paths))
    /\ UNCHANGED <<cfgVars, other, callbacks, eos, envVars, result, watcher, tx_alive, rx_alive,
                   path_cache, current_paths, timer, received, cycles, init_listed, changed,
                   touched, slept>>

\* handle_deletes(tx.clone(), path_cache.difference(&current_paths).cloned())
HandleDeletes ==
    /\ pc = "deletes"
    /\ pc' = StepAfter("deletes")
    /\ IF RemovedSet(path_cache, current_paths) = {}
       THEN NoSend
       ELSE \E paths \in CollectVec(RemovedSet(path_cache, current_paths)) :
                Send(Event("Remove", paths))
    /\ UNCHANGED <<cfgVars, other, callbacks, eos, envVars, result, watcher, tx_alive, rx_alive,
                   path_cache, current_paths, timer, received, cycles, init_listed, changed,
                   touched, slept>>

\* the cache extended by the listing instead of replaced by it
SetCacheUnion ==
    /\ pc = "assign"
    /\ path_cache' = path_cache \cup current_paths
    /\ pc' = StepAfter("assign")
    /\ timer' = WAIT_TIME
    /\ UNCHANGED <<cfgVars, other, callbacks, eos, envVars, result, watcher, chanVars,
                   current_paths, sends, received, cycles, init_listed, changed, touched,
                   slept>>

\* the cache replaced only while sends can succeed
SetCacheIfSent ==
    /\ pc = "assign"
    /\ path_cache' = IF rx_alive THEN current_paths ELSE path_cache
    /\ pc' = StepAfter("assign")
    /\ timer' = WAIT_TIME
    /\ UNCHANGED <<cfgVars, other, callbacks, eos, envVars, result, watcher, chanVars,
                   current_paths, sends, received, cycles, init_listed, changed, touched,
                   slept>>

\* the assignment forgotten: the cache keeps the initial snapshot
SetCacheKeep ==
    /\ pc = "assign"
    /\ path_cache' = path_cache
    /\ pc' = StepAfter("assign")
    /\ timer' = WAIT_TIME
    /\ UNCHANGED <<cfgVars, other, callbacks, eos, envVars, result, watcher, chanVars,
                   current_paths, sends, received, cycles, init_listed, changed, touched,
                   slept>>

\* path_cache = current_paths; then time::delay_for(..) starts
SetCache ==
    /\ pc = "assign"
    /\ path_cache' = current_paths
    /\ pc' = StepAfter("assign")
    /\ timer' = WAIT_TIME
    /\ UNCHANGED <<cfgVars, other, callbacks, eos, envVars, result, watcher, chanVars,
                   current_paths, sends, received, cycles, init_listed, changed, touched,
                   slept>>

\* one second of the delay passes
Tick ==
    /\ pc = "sleep"
    /\ timer > 0
    /\ timer' = timer - 1
    /\ UNCHANGED <<cfgVars, other, callbacks, eos, envVars, result, watcher, chanVars, pc,
                   path_cache, current_paths, sends, received, cycles, init_listed, changed,
                   touched, slept>>

\* time::delay_for(Duration::from_secs(WAIT_TIME)).await completes
Wake ==
    /\ pc = "sleep"
    /\ timer = 0
    /\ pc' = "list"
    /\ slept' = TRUE
    /\ UNCHANGED <<cfgVars, other, callbacks, eos, envVars, result, watcher, chanVars, path_cache,
                   current_paths, timer, sends, received, cycles, init_listed, changed,
                   touched>>

\* ------------------------------------------------- a second watch instance
\* dir_watcher called once more: its own channel, its own spawned task
OtherNew ==
    /\ target_os = "macos"
    /\ other.pc = "none"
    /\ other' = [other EXCEPT !.pc = "init"]
    /\ UNCHANGED <<cfgVars, callbacks, eos, envVars, result, watcher, chanVars, taskVars,
                   sends, received, cycles, init_listed, changed, touched, slept>>

\* the initial listing of that task; its next get_dir_list, in the loop,
\* stalls: no step ever takes the task out of "list"
OtherInitList ==
    /\ other.pc = "init"
    /\ other' = [pc |-> "list",
                 path_cache |-> IF get_dir_list # <<>> THEN get_dir_list[1] ELSE {}]
    /\ UNCHANGED <<cfgVars, callbacks, eos, envVars, result, watcher, chanVars, taskVars,
                   sends, received, cycles, init_listed, changed, touched, slept>>

\* any step of the spawned task
TaskStep ==
    \/ InitList
    \/ ListOk
    \/ ListFail
    \/ HandleCreates
    \/ HandleDeletes
    \/ SetCache
    \/ Tick
    \/ Wake

Next ==
    \/ \E p \in Paths : CreateFile(p)
    \/ \E p \in Paths : RemoveFile(p)
    \/ \E p \in Paths : ModifyFile(p)
    \/ \E b \in BOOLEAN : SetDirOk(b)
    \/ NewPolling
    \/ NativeWatch
    \/ NativeReturn
    \/ NativeShutdown
    \/ \E k \in NativeKinds, p \in Paths : NativeCallback(k, p)
    \/ Recv
    \/ RecvNone
    \/ DropRx
    \/ InitList
    \/ ListOk
    \/ ListFail
    \/ HandleCreates
    \/ HandleDeletes
    \/ SetCache
    \/ Tick
    \/ Wake

Spec == Init /\ [][Next]_vars

\* The polling strategy on a readable directory, with the history of what
\* happened to each entry between two listings.
InitTracked ==
    /\ target_os = "macos"
    /\ tracking = TRUE
    /\ dir_ok = TRUE
    /\ Start

NextTracked ==
    \/ \E p \in Paths : CreateFile(p)
    \/ \E p \in Paths : RemoveFile(p)
    \/ \E p \in Paths : ModifyFile(p)
    \/ NewPolling
    \/ InitList
    \/ ListOk
    \/ HandleCreates
    \/ HandleDeletes
    \/ SetCache
    \/ Tick
    \/ Wake

SpecTracked == InitTracked /\ [][NextTracked]_vars

\* The polling strategy on a directory that is empty when new() is called:
\* every entry is created after new() has returned, and none is removed.
InitLate ==
    /\ target_os = "macos"
    /\ tracking = FALSE
    /\ dir = {}
    /\ dir_ok = TRUE
    /\ Start

\* tokio::fs::write(base.join(..)) by the caller once it holds the stream
CreateAfterNew(p) ==
    /\ result = "Ok"
    /\ CreateFile(p)

NextLate ==
    \/ \E p \in Paths : CreateAfterNew(p)
    \/ NewPolling
    \/ InitList
    \/ ListOk
    \/ HandleCreates
    \/ HandleDeletes
    \/ SetCache
    \/ Tick
    \/ Wake
    \/ Recv

SpecLate == InitLate /\ [][NextLate]_vars

\* Two polling instances on a readable directory; the runtime keeps running
\* a task that is ready, the environment and the other instance owe nothing.
InitTwo ==
    /\ target_os = "macos"
    /\ tracking = FALSE
    /\ dir_ok = TRUE
    /\ Start

NextTwo ==
    \/ \E p \in Paths : CreateFile(p)
    \/ \E p \in Paths : RemoveFile(p)
    \/ NewPolling
    \/ InitList
    \/ ListOk
    \/ HandleCreates
    \/ HandleDeletes
    \/ SetCache
    \/ Tick
    \/ Wake
    \/ OtherNew
    \/ OtherInitList

SpecTwo == InitTwo /\ [][NextTwo]_vars /\ WF_vars(TaskStep)

\* =================================================================
\* Properties
\* =================================================================
IsPrefix(s, t) == Len(s) <= Len(t) /\ SubSeq(t, 1, Len(s)) = s

Items(ss) == [i \in DOMAIN ss |-> ss[i].item]

\* the send calls made by loop iteration c
CycleSends(c) == SelectSeq(sends, LAMBDA s : s.item.cyc = c)

KindSends(c, k) == SelectSeq(sends, LAMBDA s : s.item.cyc = c /\ s.item.kind = k)

\* the items that entered the channel, in send order
OkItems == Items(SelectSeq(sends, LAMBDA s : s.ok))

\* what the consumer has seen followed by what it will see next
Delivered == received \o chan

\* iteration c has run to its end (it sleeps, or the next listing is due)
CycleDone(c) ==
    \/ c < Len(cycles)
    \/ c = Len(cycles) /\ pc \in {"sleep", "list"}

\* the cache as iteration c left it
CacheAfter(c) == IF c < Len(cycles) THEN cycles[c + 1].cache ELSE path_cache

\* C1: in every completed iteration whose listing succeeded with cache C and
\* listing S, exactly one Create is sent when S \ C is non-empty, carrying
\* each path of S \ C exactly once, and none when it is empty; when C is a
\* subset of S no Remove is sent.
C1_CreateExact ==
    \A c \in DOMAIN cycles :
        (CycleDone(c) /\ cycles[c].listed # <<>>) =>
            LET C  == cycles[c].cache
                S  == cycles[c].listed[1]
                cr == KindSends(c, "Create")
            IN /\ (S \ C # {}) =>
                      /\ Len(cr) = 1
                      /\ Range(cr[1].item.paths) = S \ C
                      /\ Len(cr[1].item.paths) = Cardinality(S \ C)
               /\ (S \ C = {}) => cr = <<>>
               /\ (C \subseteq S) => KindSends(c, "Remove") = <<>>

\* cached = A non-empty, listing = A \cup B with B non-empty: one Create, no Remove
C1_Witness ==
    \E c \in DOMAIN cycles :
        /\ CycleDone(c) /\ cycles[c].listed # <<>>
        /\ cycles[c].cache # {}
        /\ cycles[c].cache \subseteq cycles[c].listed[1]
        /\ cycles[c].listed[1] # cycles[c].cache
        /\ Len(CycleSends(c)) = 1
        /\ CycleSends(c)[1].item.kind = "Create"

\* C2: in every completed iteration whose listing succeeded with cache C and
\* listing S, exactly one Remove is sent when C \ S is non-empty, carrying
\* each path of C \ S exactly once, and none when it is empty; when S is a
\* subset of C no Create is sent.
C2_RemoveExact ==
    \A c \in DOMAIN cycles :
        (CycleDone(c) /\ cycles[c].listed # <<>>) =>
            LET C  == cycles[c].cache
                S  == cycles[c].listed[1]
                rm == KindSends(c, "Remove")
            IN /\ (C \ S # {}) =>
                      /\ Len(rm) = 1
                      /\ Range(rm[1].item.paths) = C \ S
                      /\ Len(rm[1].item.paths) = Cardinality(C \ S)
               /\ (C \ S = {}) => rm = <<>>
               /\ (S \subseteq C) => KindSends(c, "Create") = <<>>

\* cached = A, listing = A \ R with R a non-empty proper subset: one Remove, no Create
C2_Witness ==
    \E c \in DOMAIN cycles :
        /\ CycleDone(c) /\ cycles[c].listed # <<>>
        /\ cycles[c].listed[1] # {}
        /\ cycles[c].listed[1] \subseteq cycles[c].cache
        /\ cycles[c].listed[1] # cycles[c].cache
        /\ Len(CycleSends(c)) = 1
        /\ CycleSends(c)[1].item.kind = "Remove"

\* C3: the Create of an iteration is sent before its Remove; the channel
\* hands items over in send order, so wherever both were delivered the
\* Remove directly follows the Create.
C3_CreateBeforeRemove ==
    /\ \A i, j \in DOMAIN sends :
           (/\ sends[i].item.cyc = sends[j].item.cyc
            /\ sends[i].item.cyc > 0
            /\ sends[i].item.kind = "Create"
            /\ sends[j].item.kind = "Remove") => i < j
    /\ IsPrefix(Delivered, OkItems)
    /\ rx_alive => Delivered = OkItems
    /\ \A i, j \in DOMAIN Delivered :
           (/\ Delivered[i].cyc = Delivered[j].cyc
            /\ Delivered[i].cyc > 0
            /\ Delivered[i].kind = "Create"
            /\ Delivered[j].kind = "Remove") => j = i + 1

\* the consumer has received the Create and then the Remove of one iteration
C3_Witness ==
    \E i \in DOMAIN received :
        /\ i + 1 \in DOMAIN received
        /\ received[i].cyc > 0
        /\ received[i].kind = "Create"
        /\ received[i + 1].kind = "Remove"
        /\ received[i + 1].cyc = received[i].cyc

\* C4: between a failed listing of the loop and the next listing of the
\* loop the task sleeps (a delay_for completes).
C4_SleepAfterFailure ==
    \A c \in DOMAIN cycles :
        (c > 1 /\ cycles[c - 1].listed = <<>>) => cycles[c].slept

\* the first successful iteration after failed iteration c, 0 if there is none
NextOk(c) ==
    IF \E d \in DOMAIN cycles : d > c /\ cycles[d].listed # <<>>
    THEN CHOOSE d \in DOMAIN cycles :
             /\ d > c /\ cycles[d].listed # <<>>
             /\ \A e \in DOMAIN cycles : (e > c /\ e < d) => cycles[e].listed = <<>>
    ELSE 0

\* C5: an iteration whose listing failed makes exactly one send, of an Err
\* item (which enters the channel when the receiver exists), sends no Create
\* or Remove and leaves the cache as it found it; the next successful
\* iteration sends exactly the differences between its listing and the cache
\* from before the failure.
C5_ListFailure ==
    \A c \in DOMAIN cycles :
        cycles[c].listed = <<>> =>
            /\ Len(CycleSends(c)) = 1
            /\ CycleSends(c)[1].item.kind = "Err"
            /\ rx_alive => \E i \in DOMAIN Delivered :
                               Delivered[i].cyc = c /\ Delivered[i].kind = "Err"
            /\ CacheAfter(c) = cycles[c].cache
            /\ (NextOk(c) # 0 /\ CycleDone(NextOk(c))) =>
                   LET d  == NextOk(c)
                       C  == cycles[c].cache
                       S  == cycles[d].listed[1]
                       cr == KindSends(d, "Create")
                       rm == KindSends(d, "Remove")
                   IN /\ Len(CycleSends(d)) = Len(cr) + Len(rm)
                      /\ IF S \ C = {} THEN cr = <<>>
                         ELSE Len(cr) = 1 /\ Range(cr[1].item.paths) = S \ C
                      /\ IF C \ S = {} THEN rm = <<>>
                         ELSE Len(rm) = 1 /\ Range(rm[1].item.paths) = C \ S

\* a failed iteration with a non-empty cache, followed by a completed
\* successful one that reported a change against that cache
C5_Witness ==
    \E c \in DOMAIN cycles :
        /\ cycles[c].listed = <<>>
        /\ cycles[c].cache # {}
        /\ NextOk(c) # 0
        /\ CycleDone(NextOk(c))
        /\ CycleSends(NextOk(c)) # <<>>

\* C6, as claimed: new() on a path that is missing or unreadable returns an
\* error, hands out no stream and starts no polling task, on every platform.
C6_NewFailsOnBadPath ==
    [][(result = "none" /\ result' # "none" /\ ~dir_ok) =>
           (result' = "Err" /\ ~rx_alive' /\ pc' = "none")]_vars

\* C6, amended: only the native new() fails on such a path (no stream, no
\* watcher, no polling task); the polling new() always returns Ok with a
\* stream and a spawned task.
C6_NewByStrategy ==
    [][(result = "none" /\ result' # "none") =>
           IF target_os = "macos"
           THEN result' = "Ok" /\ rx_alive' /\ tx_alive' /\ pc' = "init"
           ELSE /\ pc' = "none"
                /\ ~dir_ok => /\ result' = "Err"
                              /\ ~rx_alive' /\ ~tx_alive'
                              /\ watcher' = "none"]_vars

\* the native new() has failed on a directory that is not readable
C6_Witness == target_os = "other" /\ result = "Err" /\ ~dir_ok /\ ~rx_alive

\* the most recent successful listing up to iteration c (<<>> if there is none)
RECURSIVE LastListed(_)
LastListed(c) ==
    IF c = 0 THEN init_listed
    ELSE IF cycles[c].listed # <<>> THEN cycles[c].listed
    ELSE LastListed(c - 1)

\* C7: after every completed iteration the cache is the most recent
\* successful listing (the empty set while none has succeeded), whether or
\* not the iteration's sends succeeded.
C7_CacheIsLastListing ==
    \A c \in DOMAIN cycles :
        CycleDone(c) =>
            /\ CacheAfter(c) = IF LastListed(c) = <<>> THEN {} ELSE LastListed(c)[1]
            /\ cycles[c].listed # <<>> => CacheAfter(c) = cycles[c].listed[1]

\* a completed iteration whose sends failed and that shrank the cache
C7_Witness ==
    \E c \in DOMAIN cycles :
        /\ CycleDone(c) /\ cycles[c].listed # <<>>
        /\ CycleSends(c) # <<>>
        /\ \A i \in DOMAIN CycleSends(c) : ~CycleSends(c)[i].ok
        /\ cycles[c].cache \ CacheAfter(c) # {}
        /\ CacheAfter(c) # {}

\* the Create and Remove events of the polling task that name path p
PathEvents(ss, p) ==
    SelectSeq(ss, LAMBDA it : /\ it.cyc > 0
                              /\ it.kind \in {"Create", "Remove"}
                              /\ p \in Range(it.paths))

Alternates(ss) == \A i \in 1..(Len(ss) - 1) : ss[i].kind # ss[i + 1].kind

C9_PathsNonEmpty ==
    /\ \A i \in DOMAIN chan :
           (chan[i].cyc > 0 /\ chan[i].kind \in {"Create", "Remove"}) => chan[i].paths # <<>>
    /\ \A i \in DOMAIN received :
           (received[i].cyc > 0 /\ received[i].kind \in {"Create", "Remove"})
               => received[i].paths # <<>>
    /\ \A i \in DOMAIN sends :
           (sends[i].item.cyc > 0 /\ sends[i].item.kind \in {"Create", "Remove"})
               => sends[i].item.paths # <<>>

\* an iteration with nothing created and something removed queued one event
C9_Witness ==
    \E c \in DOMAIN cycles :
        /\ CycleDone(c) /\ cycles[c].listed # <<>>
        /\ cycles[c].listed[1] \ cycles[c].cache = {}
        /\ \E i \in DOMAIN chan : chan[i].cyc = c /\ chan[i].kind = "Remove"
        /\ Len(CycleSends(c)) = 1

\* C10: an iteration whose successful listing equals the cache makes no
\* send; a successful listing of a directory that has not changed since the
\* previous successful listing equals the cache, so of the iterations that
\* list after the last change only the first can send.
C10_SilentWhenUnchanged ==
    \A c \in DOMAIN cycles :
        cycles[c].listed # <<>> =>
            /\ cycles[c].listed[1] = cycles[c].cache => CycleSends(c) = <<>>
            /\ cycles[c].stable =>
                   /\ cycles[c].listed[1] = cycles[c].cache
                   /\ CycleSends(c) = <<>>

\* an iteration reported a change, the directory then stayed as it was and
\* the following iteration completed without a send
C10_Witness ==
    \E c \in DOMAIN cycles :
        /\ c > 1
        /\ cycles[c - 1].listed # <<>>
        /\ CycleSends(c - 1) # <<>>
        /\ cycles[c].listed # <<>>
        /\ cycles[c].stable
        /\ CycleDone(c)
        /\ CycleSends(c) = <<>>
        /\ rx_alive

\* the positions of the task inside dir_watcher's async block
TaskPcs == {"init", "list", "creates", "deletes", "assign", "sleep"}

\* C11: once the receiver is gone every send of the polling task fails and
\* queues nothing, yet the task stays inside its loop with the sender, can
\* always take its next step, and still replaces the cache and goes to sleep
\* at the end of a successful iteration.
C11_LoopSurvivesDroppedReceiver ==
    /\ []((target_os = "macos" /\ result = "Ok" /\ ~rx_alive) =>
              /\ pc \in TaskPcs
              /\ tx_alive
              /\ Len(cycles) < MaxCycles => ENABLED TaskStep)
    /\ [][(target_os = "macos" /\ ~rx_alive /\ sends' # sends) =>
              /\ Len(sends') = Len(sends) + 1
              /\ ~sends'[Len(sends')].ok
              /\ chan' = <<>>]_vars
    /\ [][(target_os = "macos" /\ ~rx_alive /\ pc = "assign" /\ pc' # pc) =>
              /\ path_cache' = current_paths
              /\ pc' = "sleep"]_vars

\* a send failed in one iteration and a later iteration ran to its end
C11_Witness ==
    /\ ~rx_alive
    /\ \E i \in DOMAIN sends :
           /\ ~sends[i].ok
           /\ sends[i].item.kind = "Remove"
           /\ sends[i].item.cyc < Len(cycles)
    /\ CycleDone(Len(cycles))
    /\ cycles[Len(cycles)].listed # <<>>
    /\ pc = "sleep"

\* the initial listing failed (the task is past it without a snapshot)
InitFailed == pc \in TaskPcs \ {"init"} /\ init_listed = <<>>

\* C12: after a failed initial listing the task runs with an empty cache and
\* has sent nothing for that failure; the first later iteration whose listing
\* succeeds, with a non-empty snapshot S, sends exactly one Create naming
\* every path of S and no Remove.
C12_InitFailureStillLive ==
    InitFailed =>
        /\ result = "Ok"
        /\ \A i \in DOMAIN sends : sends[i].item.cyc > 0
        /\ cycles = <<>> => (path_cache = {} /\ sends = <<>> /\ chan = <<>>)
        /\ cycles # <<>> => cycles[1].cache = {}
        /\ \A d \in DOMAIN cycles :
               (/\ cycles[d].listed # <<>>
                /\ cycles[d].listed[1] # {}
                /\ \A e \in 1..(d - 1) : cycles[e].listed = <<>>
                /\ CycleDone(d)) =>
                   /\ Len(CycleSends(d)) = 1
                   /\ CycleSends(d)[1].item.kind = "Create"
                   /\ Range(CycleSends(d)[1].item.paths) = cycles[d].listed[1]
                   /\ Len(CycleSends(d)[1].item.paths) = Cardinality(cycles[d].listed[1])

\* the initial listing failed, a later one found two entries and its
\* iteration completed
C12_Witness ==
    /\ InitFailed
    /\ \E d \in DOMAIN cycles :
           /\ d > 1
           /\ cycles[d].listed # <<>>
           /\ Cardinality(cycles[d].listed[1]) = 2
           /\ \A e \in 1..(d - 1) : cycles[e].listed = <<>>
           /\ CycleDone(d)

\* a channel item without its iteration tag
Strip(item) == [kind |-> item.kind, paths |-> item.paths]

StripAll(ss) == [i \in DOMAIN ss |-> Strip(ss[i])]

\* C13: the native closure makes exactly one send per invocation, in
\* invocation order, of the result it was given; while the receiver exists
\* what is delivered is exactly the sequence of callback results, and a send
\* that fails changes nothing else.
C13_NativeForwardsVerbatim ==
    target_os = "other" =>
        /\ StripAll(Items(sends)) = callbacks
        /\ IsPrefix(StripAll(Delivered), callbacks)
        /\ rx_alive => StripAll(Delivered) = callbacks
        /\ \A i \in DOMAIN sends : sends[i].ok \/ (result = "Ok" /\ ~rx_alive)
        /\ pc = "none"

\* two callbacks: an error result that the consumer received, then an event
\* whose send failed because the stream had been dropped
C13_Witness ==
    /\ target_os = "other"
    /\ Len(callbacks) = 2
    /\ callbacks[1].kind = "Err"
    /\ Len(received) = 1
    /\ received[1].kind = "Err"
    /\ ~sends[2].ok

\* C14: while the consumer holds a stream built by the native new(), the
\* watch is still registered, the sending half exists and the stream has not
\* ended.
C14_NativeStreamStaysLive ==
    (target_os = "other" /\ result = "Ok" /\ rx_alive) =>
        /\ watcher = "registered"
        /\ tx_alive
        /\ ~eos

\* C19: the polling task never leaves its loop and never gives up the
\* sending half, so the stream cannot yield None: next() returns an item or
\* stays pending.
C19_PollingStreamNeverEnds ==
    (target_os = "macos" /\ result = "Ok") =>
        /\ pc \in TaskPcs
        /\ tx_alive
        /\ ~eos
        /\ ~ENABLED RecvNone

\* after a failed listing and a completed iteration the consumer has drained
\* the channel and its next() is pending
C19_Witness ==
    /\ target_os = "macos"
    /\ rx_alive
    /\ chan = <<>>
    /\ received # <<>>
    /\ Len(cycles) = MaxCycles
    /\ \E c \in DOMAIN cycles : cycles[c].listed = <<>>
    /\ pc = "sleep"

\* the paths named by the events of kind k that iteration c sent
Named(c, k) ==
    UNION {Range(KindSends(c, k)[i].item.paths) : i \in DOMAIN KindSends(c, k)}

\* C16: in a completed iteration with a successful listing, a path that is
\* in the cache and in the listing is named by no event, whatever happened
\* to it between the two listings, and so is a path that is in neither; no
\* path is named by both the Create and the Remove of one iteration.
C16_PresenceOnly ==
    \A c \in DOMAIN cycles :
        (CycleDone(c) /\ cycles[c].listed # <<>>) =>
            LET C == cycles[c].cache
                S == cycles[c].listed[1]
            IN /\ \A p \in C \cap S : p \notin Named(c, "Create") \cup Named(c, "Remove")
               /\ \A p \in Paths \ (C \cup S) :
                      p \notin Named(c, "Create") \cup Named(c, "Remove")
               /\ Named(c, "Create") \cap Named(c, "Remove") = {}

\* between two listings one entry was rewritten or replaced and another was
\* created and removed again: the iteration completed without an event
C16_Witness ==
    \E c \in DOMAIN cycles :
        /\ CycleDone(c) /\ cycles[c].listed # <<>>
        /\ init_listed # <<>>
        /\ cycles[c].cache \cap cycles[c].listed[1] \cap cycles[c].touched # {}
        /\ cycles[c].touched \ (cycles[c].cache \cup cycles[c].listed[1]) # {}
        /\ CycleSends(c) = <<>>

\* the effect of one channel item on a replayed set of paths
Apply(set, item) ==
    IF item.kind = "Create" THEN set \cup Range(item.paths)
    ELSE IF item.kind = "Remove" THEN set \ Range(item.paths)
    ELSE set

RECURSIVE Replay(_, _)
Replay(set, items) ==
    IF items = <<>> THEN set ELSE Replay(Apply(set, Head(items)), Tail(items))

\* the cache the loop started with
InitialCache == IF cycles = <<>> THEN path_cache ELSE cycles[1].cache

\* what the task passed to send up to the end of iteration c
SentUpTo(c) == Items(SelectSeq(sends, LAMBDA s : s.item.cyc <= c))

\* C18: at the end of every iteration, replaying from the initial cache all
\* the Create and Remove events sent so far, in send order, gives the cache;
\* Err items change nothing.
C18_ReplayGivesCache ==
    target_os = "macos" =>
        \A c \in DOMAIN cycles :
            CycleDone(c) => Replay(InitialCache, SentUpTo(c)) = CacheAfter(c)

\* a Create, a Remove and an Err were sent and the cache differs from the
\* initial one
C18_Witness ==
    /\ target_os = "macos"
    /\ cycles # <<>>
    /\ CycleDone(Len(cycles))
    /\ \E i, j, k \in DOMAIN sends :
           /\ sends[i].item.kind = "Create"
           /\ sends[j].item.kind = "Remove"
           /\ sends[k].item.kind = "Err"
    /\ InitialCache # {}
    /\ path_cache # InitialCache

\* C17: every entry created after new() returned, and present since, gets
\* reported by a Create.  Under SpecLate every entry is such an entry, and an
\* entry that is in the cache is never named by a later Create, so the claim
\* requires each cached path to have been named by a Create already.
C17_CreatedAfterNewIsReported ==
    \A p \in path_cache :
        \E i \in DOMAIN sends :
            sends[i].item.kind = "Create" /\ p \in Range(sends[i].item.paths)

\* C15: a step of one instance leaves the task state, cache and channel of
\* the other as they are, and an instance whose listing stalls forever does
\* not hold up the other, which goes on to complete its iterations.
C15_InstancesIndependent ==
    /\ [][other' # other =>
              /\ pc' = pc /\ path_cache' = path_cache /\ current_paths' = current_paths
              /\ sends' = sends /\ chan' = chan /\ cycles' = cycles]_vars
    /\ [][(pc' # pc \/ path_cache' # path_cache \/ current_paths' # current_paths)
              => other' = other]_vars
    /\ (result = "Ok" /\ other.pc = "list")
           ~> (Len(cycles) = MaxCycles /\ pc = "list" /\ other.pc = "list")

\* the other instance is stalled in its listing, with a cache of its own,
\* and this one has completed its iterations and sent events
C15_Witness ==
    /\ other.pc = "list"
    /\ other.path_cache # path_cache
    /\ Len(cycles) = MaxCycles
    /\ cycles[1].slept = FALSE
    /\ cycles[MaxCycles].slept
    /\ pc = "list"
    /\ sends # <<>>

====
